---- MODULE Spec2Model ----
(***************************************************************************)
(* boost::sync::condition_variable                                         *)
(* (boost/sync/condition_variables/condition_variable.hpp).                *)
(*                                                                         *)
(* The header documents the wait / notify protocol of the primitive: wait  *)
(* atomically unlocks the mutex and blocks, a blocked thread is unblocked  *)
(* by notify_one, notify_all or spuriously (or, for the timed forms, when  *)
(* the timeout expires), it locks the mutex again before it returns, and   *)
(* the predicate overloads are the loops written out in the header.        *)
(* Threads, the guarding mutex, the caller's predicate state and the clock *)
(* are the environment the primitive runs in.                              *)
(***************************************************************************)
EXTENDS Integers, FiniteSets, Sequences, TLC

\* Threads 1..NWaiters may call every operation; thread 0 never waits.
NWaiters == 2

\* Deadlines are the time points 0 .. MaxTime; the clock runs one tick past
\* the last of them, so that the time after every deadline is a state.
MaxTime == 1

Waiters == 1..NWaiters
Threads == 0..NWaiters
Signaller == CHOOSE t \in Threads : t \notin Waiters
TimePoints == 0..MaxTime
ClockEnd == MaxTime + 1

VARIABLES
    holder,     \* the set of threads that own the guarding mutex
    pred,       \* the caller's condition state, read by pred()
    waiters,    \* the threads blocked on the condition variable
    pc,         \* pc[t]: where thread t stands
    op,         \* op[t]: the operation thread t is inside
    deadline,   \* deadline[t]: the absolute timeout of a timed operation
    entry,      \* entry[t]: the clock value when t called the timed operation
    ret,        \* ret[t]: the outcome of the operation t has just returned from
    woke,       \* woke[t]: what ended t's last blocking
    now,        \* the clock
    plan,       \* the notifications the notifying thread of the scenario issues
    step        \* the index of the next notification of plan

vars == <<holder, pred, waiters, pc, op, deadline, entry, ret, woke, now, plan, step>>

TimedOps == {"timed_wait", "timed_wait_pred"}

\* A thread is inside a wait operation from its call to its return.
InCall(t) == pc[t] \in {"check", "enter", "blocked", "woken", "final"}

----------------------------------------------------------------------------
(* The guarding mutex (unique_lock< Mutex >) and the caller's state.       *)

Acquire(t) ==
    /\ holder = {}
    /\ holder' = {t}

Release(t) ==
    /\ holder = {t}
    /\ holder' = {}

Lock(t) ==
    /\ pc[t] = "idle"
    /\ Acquire(t)
    /\ UNCHANGED <<pred, waiters, pc, op, deadline, entry, ret, woke, now, plan, step>>

Unlock(t) ==
    /\ pc[t] = "idle"
    /\ Release(t)
    /\ UNCHANGED <<pred, waiters, pc, op, deadline, entry, ret, woke, now, plan, step>>

\* The condition state is only changed under the mutex.
SetPred(t, b) ==
    /\ pc[t] = "idle"
    /\ holder = {t}
    /\ pred # b
    /\ pred' = b
    /\ UNCHANGED <<holder, waiters, pc, op, deadline, entry, ret, woke, now, plan, step>>

Tick ==
    /\ now < ClockEnd
    /\ now' = now + 1
    /\ UNCHANGED <<holder, pred, waiters, pc, op, deadline, entry, ret, woke, plan, step>>

----------------------------------------------------------------------------
(* notify_one, notify_all                                                  *)

Unblock(ws, why) ==
    /\ waiters' = waiters \ ws
    /\ pc' = [t \in Threads |-> IF t \in ws THEN "woken" ELSE pc[t]]
    /\ woke' = [t \in Threads |-> IF t \in ws THEN why ELSE woke[t]]

\* Faulty variants of notify_one: it wakes every blocked thread; it wakes
\* nobody; its wake-up goes to a thread that may not be blocked any more.
WakeOneWakesAll == Unblock(waiters, "notify")

WakeOneWakesNobody == UNCHANGED <<waiters, pc, woke>>

WakeOneStale ==
    IF waiters = {}
    THEN UNCHANGED <<waiters, pc, woke>>
    ELSE \E w \in Waiters :
            IF w \in waiters
            THEN Unblock({w}, "notify")
            ELSE UNCHANGED <<waiters, pc, woke>>

\* notify_one: "Wakes up one thread blocked on the object".
WakeOne ==
    IF waiters = {}
    THEN UNCHANGED <<waiters, pc, woke>>
    ELSE \E w \in waiters : Unblock({w}, "notify")

\* Faulty variants of notify_all: it wakes one blocked thread only; with no
\* thread blocked it leaves a wake-up behind for the threads about to block;
\* it wakes again the threads that are awake but have not locked the mutex yet.
WakeAllRewakes == Unblock(waiters \cup {t \in Threads : pc[t] = "woken"}, "notify")

WakeAllWakesOne ==
    IF waiters = {}
    THEN UNCHANGED <<waiters, pc, woke>>
    ELSE \E w \in waiters : Unblock({w}, "notify")

WakeAllRemembered ==
    IF waiters = {}
    THEN /\ woke' = [t \in Threads |-> IF pc[t] = "enter" THEN "notify" ELSE woke[t]]
         /\ UNCHANGED <<waiters, pc>>
    ELSE Unblock(waiters, "notify")

\* notify_all: "Wakes up all threads blocked on the object".
WakeAll == Unblock(waiters, "notify")

\* A faulty notify_one: it waits for the guarding mutex to be free or its own.
NotifyOneNeedsLock(t) ==
    /\ pc[t] = "idle"
    /\ holder \subseteq {t}
    /\ WakeOne
    /\ UNCHANGED <<holder, pred, op, deadline, entry, ret, now, plan, step>>

notify_one(t) ==
    /\ pc[t] = "idle"
    /\ WakeOne
    /\ UNCHANGED <<holder, pred, op, deadline, entry, ret, now, plan, step>>

notify_all(t) ==
    /\ pc[t] = "idle"
    /\ WakeAll
    /\ UNCHANGED <<holder, pred, op, deadline, entry, ret, now, plan, step>>

----------------------------------------------------------------------------
(* Calls. Every wait operation requires lock.owns_lock().                  *)

Call(t, o, first, d) ==
    /\ pc[t] = "idle"
    /\ holder = {t}
    /\ op' = [op EXCEPT ![t] = o]
    /\ pc' = [pc EXCEPT ![t] = first]
    /\ deadline' = [deadline EXCEPT ![t] = d]
    /\ entry' = [entry EXCEPT ![t] = IF o \in TimedOps THEN now ELSE 0]
    /\ UNCHANGED <<holder, pred, waiters, ret, woke, now, plan, step>>

\* void wait(unique_lock< Mutex >& lock)
wait(t) == Call(t, "wait", "enter", 0)

\* void wait(unique_lock< Mutex >& lock, Predicate pred): while (!pred()) wait(lock);
wait_pred(t) == Call(t, "wait_pred", "check", 0)

\* bool timed_wait(unique_lock< Mutex >& lock, Time const& timeout)
timed_wait(t, d) == Call(t, "timed_wait", "enter", d)

\* bool timed_wait(lock, timeout, pred):
\*   while (!pred()) if (!timed_wait(lock, timeout)) return pred();
timed_wait_pred(t, d) == Call(t, "timed_wait_pred", "check", d)

\* bool wait_for(lock, rel_timeout, pred):
\*   return wait_until(lock, chrono::system_clock::now() + rel_timeout, pred);
\* wait_until(lock, abs_timeout, pred) is the loop of timed_wait(lock, timeout, pred).
wait_for_pred(t, r) == Call(t, "timed_wait_pred", "check", now + r)

----------------------------------------------------------------------------
(* The steps of a wait operation.                                          *)

Finish(t, r) ==
    /\ pc' = [pc EXCEPT ![t] = "done"]
    /\ ret' = [ret EXCEPT ![t] = r]

\* A faulty loop exit of the timed predicate wait: it returns whether the
\* deadline is still ahead instead of true.
EvalPredByDeadline(t) ==
    /\ pc[t] = "check"
    /\ IF pred
       THEN Finish(t, IF op[t] = "wait_pred" THEN "void"
                      ELSE IF now < deadline[t] THEN "true" ELSE "false")
       ELSE /\ pc' = [pc EXCEPT ![t] = "enter"]
            /\ UNCHANGED ret
    /\ UNCHANGED <<holder, pred, waiters, op, deadline, entry, woke, now, plan, step>>

\* The loop condition while (!pred()): the loop ends when pred() is true,
\* and its body, a wait or a timed wait, runs when it is false.
EvalPred(t) ==
    /\ pc[t] = "check"
    /\ IF pred
       THEN Finish(t, IF op[t] = "wait_pred" THEN "void" ELSE "true")
       ELSE /\ pc' = [pc EXCEPT ![t] = "enter"]
            /\ UNCHANGED ret
    /\ UNCHANGED <<holder, pred, waiters, op, deadline, entry, woke, now, plan, step>>

\* A faulty loop: the failure of pred() is swallowed and the loop goes on to
\* wait.
PredicateThrowsSwallowed(t) ==
    /\ pc[t] \in {"check", "final"}
    /\ pc' = [pc EXCEPT ![t] = "enter"]
    /\ UNCHANGED <<holder, pred, waiters, op, deadline, entry, ret, woke, now, plan, step>>

\* pred() throws: the exception leaves "while (!pred())" and "return pred();"
\* at once, from where pred() was called.
PredicateThrows(t) ==
    /\ pc[t] \in {"check", "final"}
    /\ Finish(t, "pred_throw")
    /\ UNCHANGED <<holder, pred, waiters, op, deadline, entry, woke, now, plan, step>>

\* A faulty wait: it unlocks the mutex without having joined the blocked
\* threads.
UnlockThenBlock(t) ==
    /\ Release(t)
    /\ waiters' = waiters
    /\ pc' = [pc EXCEPT ![t] = "blocked"]

\* A bounded wait blocks only while its deadline is ahead: remaining =
\* deadline - now > 0. An unbounded wait always blocks.
DeadlineAhead(t) == op[t] \in TimedOps => now < deadline[t]

\* "Atomically unlocks the mutex and blocks on the object."
UnlockAndBlock(t) ==
    /\ Release(t)
    /\ waiters' = waiters \cup {t}
    /\ pc' = [pc EXCEPT ![t] = "blocked"]

ReleaseAndBlock(t) ==
    /\ pc[t] = "enter"
    /\ DeadlineAhead(t)
    /\ UnlockAndBlock(t)
    /\ woke' = [woke EXCEPT ![t] = "none"]
    /\ UNCHANGED <<pred, op, deadline, entry, ret, now, plan, step>>

\* A bounded wait whose deadline is not in the future reports the timeout
\* without blocking.
PastDeadline(t) ==
    /\ pc[t] = "enter"
    /\ ~DeadlineAhead(t)
    /\ IF op[t] = "timed_wait"
       THEN Finish(t, "false")
       ELSE /\ pc' = [pc EXCEPT ![t] = "final"]
            /\ UNCHANGED ret
    /\ UNCHANGED <<holder, pred, waiters, op, deadline, entry, woke, now, plan, step>>

\* A faulty failure: the wait that fails takes the blocked threads off the
\* object, and no notification finds them any more.
ThrowDropsWaiters(t) ==
    /\ pc[t] = "enter"
    /\ DeadlineAhead(t)
    /\ Finish(t, "throw")
    /\ waiters' = {}
    /\ UNCHANGED <<holder, pred, op, deadline, entry, woke, now, plan, step>>

\* "Throws: An exception in case if the operating system is unable to fulfill
\* the request. The mutex is left in the locked state in case of exception."
\* The request is the blocking itself: a bounded wait that reports the timeout
\* without blocking asks nothing of the operating system.
Throw(t) ==
    /\ pc[t] = "enter"
    /\ DeadlineAhead(t)
    /\ Finish(t, "throw")
    /\ UNCHANGED <<holder, pred, waiters, op, deadline, entry, woke, now, plan, step>>

\* "The function can unblock ... spuriously."
SpuriousWakeup(t) ==
    /\ pc[t] = "blocked"
    /\ t \in waiters
    /\ Unblock({t}, "spurious")
    /\ UNCHANGED <<holder, pred, op, deadline, entry, ret, now, plan, step>>

\* Faulty timeouts: a wait without timeout is woken by the clock as well; the
\* thread woken by its timeout stays among the blocked threads.
DeadlineExpiresUntimed(t) ==
    /\ pc[t] = "blocked"
    /\ t \in waiters
    /\ deadline[t] <= now
    /\ Unblock({t}, "timeout")
    /\ UNCHANGED <<holder, pred, op, deadline, entry, ret, now, plan, step>>

DeadlineExpiresStaysQueued(t) ==
    /\ pc[t] = "blocked"
    /\ t \in waiters
    /\ op[t] \in TimedOps
    /\ deadline[t] <= now
    /\ pc' = [pc EXCEPT ![t] = "woken"]
    /\ woke' = [woke EXCEPT ![t] = "timeout"]
    /\ UNCHANGED <<holder, pred, waiters, op, deadline, entry, ret, now, plan, step>>

\* "The function can unblock after the specified timeout expires."
DeadlineExpires(t) ==
    /\ pc[t] = "blocked"
    /\ t \in waiters
    /\ op[t] \in TimedOps
    /\ deadline[t] <= now
    /\ Unblock({t}, "timeout")
    /\ UNCHANGED <<holder, pred, op, deadline, entry, ret, now, plan, step>>

\* A faulty predicate wait: "if (!pred()) wait(lock);", no second evaluation.
AfterWakeNoRecheck(t) ==
    CASE op[t] = "timed_wait_pred" -> IF woke[t] = "timeout" THEN "final" ELSE "check"
      [] OTHER -> "done"

\* Where an unblocked thread continues once it owns the mutex again: wait and
\* timed_wait return, the predicate loops evaluate pred() again, and a timed
\* predicate loop whose timed wait timed out goes to "return pred()".
AfterWake(t) ==
    CASE op[t] = "wait" -> "done"
      [] op[t] = "wait_pred" -> "check"
      [] op[t] = "timed_wait" -> "done"
      [] op[t] = "timed_wait_pred" -> IF woke[t] = "timeout" THEN "final" ELSE "check"
      [] OTHER -> "idle"

\* A faulty result: timed_wait returns true after a timeout too.
WaitResultAlwaysTrue(t) ==
    CASE op[t] = "wait" -> "void"
      [] op[t] = "timed_wait" -> "true"
      [] OTHER -> ret[t]

\* The value wait and timed_wait return: timed_wait returns "true if the
\* function returned before the timeout expired, otherwise false".
WaitResult(t) ==
    CASE op[t] = "wait" -> "void"
      [] op[t] = "timed_wait" -> IF woke[t] = "timeout" THEN "false" ELSE "true"
      [] OTHER -> ret[t]

\* A faulty wake-up: the thread goes on without locking the mutex.
RelockMissing(t) ==
    /\ pc[t] = "woken"
    /\ pc' = [pc EXCEPT ![t] = AfterWake(t)]
    /\ ret' = [ret EXCEPT ![t] = WaitResult(t)]
    /\ woke' = [woke EXCEPT ![t] = IF AfterWake(t) = "check" THEN "none" ELSE woke[t]]
    /\ UNCHANGED <<holder, pred, waiters, op, deadline, entry, now, plan, step>>

\* A faulty wake-up: the loop of the timed predicate wait starts its timeout
\* afresh, the duration added to the time of the wake-up.
RelockRestartsTimeout(t) ==
    /\ pc[t] = "woken"
    /\ Acquire(t)
    /\ pc' = [pc EXCEPT ![t] = AfterWake(t)]
    /\ ret' = [ret EXCEPT ![t] = WaitResult(t)]
    /\ woke' = [woke EXCEPT ![t] = IF AfterWake(t) = "check" THEN "none" ELSE woke[t]]
    /\ deadline' = [deadline EXCEPT ![t] =
                        IF op[t] = "timed_wait_pred" /\ AfterWake(t) = "check"
                        THEN now + (deadline[t] - entry[t])
                        ELSE deadline[t]]
    /\ UNCHANGED <<pred, waiters, op, entry, now, plan, step>>

\* A faulty wake-up: after a timeout the thread goes on without locking the
\* mutex.
RelockSkippedOnTimeout(t) ==
    /\ pc[t] = "woken"
    /\ IF woke[t] = "timeout" THEN UNCHANGED holder ELSE Acquire(t)
    /\ pc' = [pc EXCEPT ![t] = AfterWake(t)]
    /\ ret' = [ret EXCEPT ![t] = WaitResult(t)]
    /\ woke' = [woke EXCEPT ![t] = IF AfterWake(t) = "check" THEN "none" ELSE woke[t]]
    /\ UNCHANGED <<pred, waiters, op, deadline, entry, now, plan, step>>

\* A faulty wake-up: the woken thread takes the mutex from its owner.
RelockBarging(t) ==
    /\ pc[t] = "woken"
    /\ holder' = {t}
    /\ pc' = [pc EXCEPT ![t] = AfterWake(t)]
    /\ ret' = [ret EXCEPT ![t] = WaitResult(t)]
    /\ woke' = [woke EXCEPT ![t] = IF AfterWake(t) = "check" THEN "none" ELSE woke[t]]
    /\ UNCHANGED <<pred, waiters, op, deadline, entry, now, plan, step>>

\* "When unblocked, it locks the mutex and returns."
Relock(t) ==
    /\ pc[t] = "woken"
    /\ Acquire(t)
    /\ pc' = [pc EXCEPT ![t] = AfterWake(t)]
    /\ ret' = [ret EXCEPT ![t] = WaitResult(t)]
    /\ woke' = [woke EXCEPT ![t] = IF AfterWake(t) = "check" THEN "none" ELSE woke[t]]
    /\ UNCHANGED <<pred, waiters, op, deadline, entry, now, plan, step>>

\* A faulty timeout path: "return false;" instead of "return pred();".
ReturnTimedOut(t) ==
    /\ pc[t] = "final"
    /\ Finish(t, "false")
    /\ UNCHANGED <<holder, pred, waiters, op, deadline, entry, woke, now, plan, step>>

\* "return pred();" after the timed wait reported the timeout.
ReturnPred(t) ==
    /\ pc[t] = "final"
    /\ Finish(t, IF pred THEN "true" ELSE "false")
    /\ UNCHANGED <<holder, pred, waiters, op, deadline, entry, woke, now, plan, step>>

\* The caller goes on after the operation returned or threw.
Leave(t) ==
    /\ pc[t] = "done"
    /\ pc' = [pc EXCEPT ![t] = "idle"]
    /\ op' = [op EXCEPT ![t] = "none"]
    /\ ret' = [ret EXCEPT ![t] = "none"]
    /\ woke' = [woke EXCEPT ![t] = "none"]
    /\ deadline' = [deadline EXCEPT ![t] = 0]
    /\ entry' = [entry EXCEPT ![t] = 0]
    /\ UNCHANGED <<holder, pred, waiters, now, plan, step>>

----------------------------------------------------------------------------
(* The program: threads calling the operations in any order.               *)

Init ==
    /\ holder = {}
    /\ pred = FALSE
    /\ waiters = {}
    /\ pc = [t \in Threads |-> "idle"]
    /\ op = [t \in Threads |-> "none"]
    /\ deadline = [t \in Threads |-> 0]
    /\ entry = [t \in Threads |-> 0]
    /\ ret = [t \in Threads |-> "none"]
    /\ woke = [t \in Threads |-> "none"]
    /\ now = 0
    /\ plan = <<>>
    /\ step = 1

Next ==
    \/ \E t \in Threads : Lock(t)
    \/ \E t \in Threads : Unlock(t)
    \/ \E t \in Threads, b \in BOOLEAN : SetPred(t, b)
    \/ \E t \in Threads : notify_one(t)
    \/ \E t \in Threads : notify_all(t)
    \/ \E t \in Waiters : wait(t)
    \/ \E t \in Waiters : wait_pred(t)
    \/ \E t \in Waiters, d \in TimePoints : timed_wait(t, d)
    \/ \E t \in Waiters, d \in TimePoints : timed_wait_pred(t, d)
    \/ \E t \in Waiters, r \in 0..(MaxTime - now) : wait_for_pred(t, r)
    \/ \E t \in Waiters : EvalPred(t)
    \/ \E t \in Waiters : PredicateThrows(t)
    \/ \E t \in Waiters : ReleaseAndBlock(t)
    \/ \E t \in Waiters : PastDeadline(t)
    \/ \E t \in Waiters : Throw(t)
    \/ \E t \in Waiters : SpuriousWakeup(t)
    \/ \E t \in Waiters : DeadlineExpires(t)
    \/ \E t \in Waiters : Relock(t)
    \/ \E t \in Waiters : ReturnPred(t)
    \/ \E t \in Waiters : Leave(t)
    \/ Tick

Spec == Init /\ [][Next]_vars

----------------------------------------------------------------------------
(* The notification scenario: threads 1..NWaiters call wait(lock, pred)    *)
(* while the predicate is false; thread 0 locks the mutex, makes the       *)
(* predicate true, issues the notifications of plan while it holds the     *)
(* mutex, and unlocks. No thread makes the predicate false again.          *)

NotifyKinds == {"one", "all"}

Plans == UNION {[1..n -> NotifyKinds] : n \in 1..NWaiters}

DriverLock ==
    /\ ~pred
    /\ Lock(Signaller)

DriverSetPred == SetPred(Signaller, TRUE)

DriverNotify ==
    /\ pc[Signaller] = "idle"
    /\ holder = {Signaller}
    /\ pred
    /\ step <= Len(plan)
    /\ IF plan[step] = "one" THEN WakeOne ELSE WakeAll
    /\ step' = step + 1
    /\ UNCHANGED <<holder, pred, op, deadline, entry, ret, now, plan>>

DriverUnlock ==
    /\ pred
    /\ step > Len(plan)
    /\ Unlock(Signaller)

WaiterLock(t) ==
    /\ ~pred
    /\ Lock(t)

WaiterCall(t) ==
    /\ ~pred
    /\ wait_pred(t)

LiveInit ==
    /\ holder = {}
    /\ pred = FALSE
    /\ waiters = {}
    /\ pc = [t \in Threads |-> "idle"]
    /\ op = [t \in Threads |-> "none"]
    /\ deadline = [t \in Threads |-> 0]
    /\ entry = [t \in Threads |-> 0]
    /\ ret = [t \in Threads |-> "none"]
    /\ woke = [t \in Threads |-> "none"]
    /\ now = 0
    /\ plan \in Plans
    /\ step = 1

LiveNext ==
    \/ DriverLock
    \/ DriverSetPred
    \/ DriverNotify
    \/ DriverUnlock
    \/ \E t \in Waiters : WaiterLock(t)
    \/ \E t \in Waiters : WaiterCall(t)
    \/ \E t \in Waiters : Unlock(t)
    \/ \E t \in Waiters : EvalPred(t)
    \/ \E t \in Waiters : ReleaseAndBlock(t)
    \/ \E t \in Waiters : SpuriousWakeup(t)
    \/ \E t \in Waiters : Relock(t)
    \/ \E t \in Waiters : Leave(t)

\* Fair scheduling: a thread that can take its next step inside wait, or that
\* holds the mutex outside it, eventually moves on. Spurious wakeups and the
\* callers' decisions to lock and to wait are not forced.
LiveFairness ==
    /\ WF_vars(DriverNotify)
    /\ WF_vars(DriverUnlock)
    /\ \A t \in Waiters :
        /\ WF_vars(EvalPred(t))
        /\ WF_vars(ReleaseAndBlock(t))
        /\ WF_vars(Relock(t))
        /\ WF_vars(Leave(t))
        /\ WF_vars(Unlock(t))

LiveSpec == LiveInit /\ [][LiveNext]_vars /\ LiveFairness

----------------------------------------------------------------------------
(* Properties of the program (Spec).                                       *)

\* The outcomes of a call that are an exception, of the wait or of pred().
Thrown == {"throw", "pred_throw"}

\* A thread inside a wait has released the mutex and has not been woken yet.
Released(t) == InCall(t) /\ t \notin holder /\ pc[t] # "woken"

\* No state lies between the release of the mutex and the joining of the
\* blocked threads.
C1_NoGap ==
    \A t \in Threads : Released(t) => (t \in waiters /\ pc[t] = "blocked")

\* A notify_all step wakes every thread that has released the mutex, and a
\* notify_one step wakes one of them if there is any.
C1_NotifyFindsReleased ==
    \A n \in Threads :
        /\ notify_all(n) => \A t \in Threads : Released(t) => pc'[t] = "woken"
        /\ notify_one(n) =>
              ((\E t \in Threads : Released(t))
                  => \E t \in Threads : Released(t) /\ pc'[t] = "woken")

\* C1: wait releases the mutex and joins the blocked threads in one step: no
\* reachable state has a thread inside a wait that has released the mutex and
\* is neither among the blocked threads nor already woken, so a notify
\* issued after the release always finds it.
C1_AtomicReleaseAndBlock == []C1_NoGap /\ [][C1_NotifyFindsReleased]_vars

\* A thread is blocked while another thread, free to notify, owns the mutex.
C1_Witness ==
    \E t \in Waiters, n \in Threads :
        /\ n # t
        /\ pc[t] = "blocked"
        /\ t \in waiters
        /\ holder = {n}
        /\ pc[n] = "idle"

\* C4: in the state right after any wait operation returns or throws, the
\* calling thread, and no other, owns the mutex.
C4_LockPostcondition ==
    \A t \in Threads : pc[t] = "done" => holder = {t}

\* A timed wait that blocked and timed out has returned.
C4_Witness ==
    \E t \in Waiters :
        /\ pc[t] = "done"
        /\ op[t] = "timed_wait"
        /\ woke[t] = "timeout"
        /\ ret[t] = "false"
        /\ holder = {t}

\* wait(lock, pred) returns normally only with the predicate true.
C5_ReturnsOnlyWhenTrue ==
    \A t \in Waiters :
        (pc[t] = "done" /\ op[t] = "wait_pred" /\ ret[t] \notin Thrown)
            => (pred /\ ret[t] = "void")

\* wait(lock, pred) starts by evaluating the predicate; an evaluation that
\* finds it true returns with the mutex owned and the thread not blocked, one
\* that finds it false goes to wait(lock), which blocks (or throws); and every
\* wake-up leads to another evaluation.  An evaluation in which pred() throws
\* is not a normal return.
C5_LoopStep ==
    \A t \in Waiters :
        /\ (pc[t] = "idle" /\ op'[t] = "wait_pred")
              => (pc'[t] = "check" /\ holder' = {t} /\ t \notin waiters')
        /\ (op[t] = "wait_pred" /\ pc[t] = "check" /\ pc'[t] # "check")
              => \/ pc'[t] = "done" /\ ret'[t] = "pred_throw"
                 \/ IF pred
                    THEN /\ pc'[t] = "done"
                         /\ ret'[t] = "void"
                         /\ holder' = {t}
                         /\ t \notin waiters'
                    ELSE /\ pc'[t] = "enter"
                         /\ holder' = {t}
        /\ (op[t] = "wait_pred" /\ pc[t] = "enter" /\ pc'[t] # "enter")
              => \/ pc'[t] = "blocked" /\ t \in waiters' /\ holder' = {}
                 \/ pc'[t] = "done" /\ ret'[t] = "throw"
        /\ (op[t] = "wait_pred" /\ pc[t] = "woken" /\ pc'[t] # "woken")
              => (pc'[t] = "check" /\ holder' = {t})

\* C5: wait(lock, pred) is "while (!pred()) wait(lock);": it returns normally
\* only in a state where the predicate is true, a wake-up that finds the
\* predicate false blocks the thread again, and with the predicate true at
\* the call it returns without unlocking the mutex or blocking.
C5_PredicateLoop == []C5_ReturnsOnlyWhenTrue /\ [][C5_LoopStep]_vars

\* wait(lock, pred) has returned with the predicate true.
C5_Witness ==
    \E t \in Waiters :
        /\ pc[t] = "done"
        /\ op[t] = "wait_pred"
        /\ ret[t] = "void"
        /\ pred

\* C6: the timed predicate wait returns the value the predicate has at the
\* return: true with the predicate true, false with the deadline reached and
\* the predicate false; after a timeout the predicate decides.
C6_TimedPredicateResult ==
    \A t \in Waiters :
        (pc[t] = "done" /\ op[t] = "timed_wait_pred" /\ ret[t] \notin Thrown)
            => /\ ret[t] = IF pred THEN "true" ELSE "false"
               /\ ret[t] = "false" => deadline[t] <= now

\* The timed wait timed out, the predicate had been made true, true is returned.
C6_Witness ==
    \E t \in Waiters :
        /\ pc[t] = "done"
        /\ op[t] = "timed_wait_pred"
        /\ woke[t] = "timeout"
        /\ ret[t] = "true"

C8_NotifyOneStep ==
    \A n \in Threads :
        notify_one(n)
            => /\ waiters' \subseteq waiters
               /\ Cardinality(waiters \ waiters') <= 1
               /\ waiters # {} => Cardinality(waiters \ waiters') = 1
               /\ \A w \in waiters' : pc'[w] = "blocked"
               /\ \A w \in waiters \ waiters' : pc'[w] = "woken"
               /\ \A w \in Threads \ waiters : pc'[w] = pc[w]

\* C8: a notify_one call takes at most one thread out of the blocked threads,
\* exactly one if any thread is blocked; the others stay blocked.
C8_NotifyOneWakesOne == [][C8_NotifyOneStep]_vars

\* Of two blocked threads notify_one has woken one; the other is still blocked.
C8_Witness ==
    \E a \in Waiters, b \in Waiters :
        /\ pc[a] = "woken"
        /\ woke[a] = "notify"
        /\ pc[b] = "blocked"
        /\ b \in waiters

\* A notify with no thread blocked is a step that changes no variable; a
\* thread that blocks joins the blocked threads with no wake-up pending; a
\* thread stops being blocked only in a notify step, spuriously or at its
\* deadline.
C10_NoopNotifyStep ==
    /\ \A n \in Threads :
          ((notify_one(n) \/ notify_all(n)) /\ waiters = {}) => UNCHANGED vars
    /\ \A t \in Waiters :
          (pc[t] = "enter" /\ pc'[t] = "blocked")
              => (t \in waiters' /\ woke'[t] = "none" /\ holder' = {})
    /\ \A t \in Waiters :
          (pc[t] = "blocked" /\ pc'[t] # "blocked")
              => /\ pc'[t] = "woken"
                 /\ \/ \E n \in Threads : notify_one(n) \/ notify_all(n)
                    \/ SpuriousWakeup(t)
                    \/ DeadlineExpires(t)

\* C10: notify_one and notify_all with no thread blocked change nothing, and
\* leave nothing behind: a thread that then blocks joins the blocked threads,
\* and leaves them only by a later notify, spuriously or at its deadline.
C10_NoopNotify == [][C10_NoopNotifyStep]_vars

\* No thread is blocked, a thread that called wait is about to block, and
\* another thread is free to notify.
C10_Witness ==
    /\ waiters = {}
    /\ \E t \in Waiters, n \in Threads :
          /\ n # t
          /\ pc[t] = "enter"
          /\ op[t] = "wait"
          /\ pc[n] = "idle"

\* What a notify_all step does: the blocked threads, all of them, are woken
\* by it, and every other thread is as it was: a thread awake from an earlier
\* wake-up keeps that wake-up, a thread about to block is still about to.
C11_NotifyAllStep ==
    \A n \in Threads :
        notify_all(n)
            => /\ waiters' = {}
               /\ \A w \in waiters : pc'[w] = "woken" /\ woke'[w] = "notify"
               /\ \A w \in Threads \ waiters : pc'[w] = pc[w] /\ woke'[w] = woke[w]

\* A blocked thread is among the blocked threads and has no wake-up pending.
C11_NoCarriedWake ==
    \A t \in Waiters : pc[t] = "blocked" => (t \in waiters /\ woke[t] = "none")

\* C11: notify_all wakes exactly the threads blocked at the call: each of them
\* is woken, a thread already woken and not yet resumed is not woken again and
\* carries no wake-up into its next wait, and a thread that blocks after the
\* call is not woken by it.
C11_NotifyAllWakesBlocked == []C11_NoCarriedWake /\ [][C11_NotifyAllStep]_vars

\* One thread is awake from a spurious wake-up or a timeout and has not
\* resumed, another has been woken by a notification; nobody is blocked.
C11_Witness ==
    \E a \in Waiters, b \in Waiters :
        /\ pc[a] = "woken"
        /\ woke[a] \in {"spurious", "timeout"}
        /\ pc[b] = "woken"
        /\ woke[b] = "notify"
        /\ waiters = {}

\* What the failure of a wait does: the caller still owns the mutex and is not
\* blocked, the exception is the outcome of its call, and every other thread
\* is as it was, blocked on the object if it was, awake from the wake-up it
\* had if it was.
C12_ThrowStep ==
    \A t \in Waiters :
        Throw(t)
            => /\ pc'[t] = "done"
               /\ ret'[t] = "throw"
               /\ holder' = {t}
               /\ t \notin waiters'
               /\ waiters' = waiters
               /\ \A u \in Threads \ {t} : pc'[u] = pc[u] /\ woke'[u] = woke[u]
               /\ \A u \in Threads : pc'[u] = "blocked" => u \in waiters'

\* C12: a wait or timed wait that fails because the operating system cannot
\* fulfil the request leaves the caller owning the mutex, and leaves the other
\* threads alone: the threads blocked on the object and the wake-ups already
\* delivered are unchanged, so a notification still finds the blocked threads.
C12_FailureLeavesOthers == [][C12_ThrowStep]_vars

\* A wait has failed, its caller owns the mutex, and another thread is still
\* blocked on the object.
C12_Witness ==
    \E t \in Waiters, u \in Waiters :
        /\ pc[t] = "done"
        /\ ret[t] = "throw"
        /\ holder = {t}
        /\ pc[u] = "blocked"
        /\ u \in waiters

\* What a failure of pred() does: it is raised where pred() was called, in the
\* loop test or in the final "return pred();", with the mutex owned, and it
\* ends the call there: the thread does not wait again, owns the mutex and is
\* not blocked, and nothing else changes.
C13_PredicateThrowsStep ==
    \A t \in Waiters :
        /\ PredicateThrows(t)
              => /\ op[t] \in {"wait_pred", "timed_wait_pred"}
                 /\ pc'[t] = "done"
                 /\ ret'[t] = "pred_throw"
                 /\ holder = {t}
                 /\ holder' = {t}
                 /\ t \notin waiters'
                 /\ waiters' = waiters
        /\ (pc[t] = "done" /\ pc'[t] # "done") => (pc'[t] = "idle" /\ op'[t] = "none")

\* The call that pred() has failed in is over: its thread owns the mutex and
\* is not blocked.
C13_FailedWithLock ==
    \A t \in Waiters :
        (pc[t] = "done" /\ ret[t] = "pred_throw") => (holder = {t} /\ t \notin waiters)

\* C13: if pred() fails during a predicate wait, timed or not, the loop ends
\* at once with that failure as the outcome of the call, without another wait,
\* and the calling thread owns the mutex and is not blocked when the failure
\* is propagated.
C13_PredicateFailureEndsLoop == []C13_FailedWithLock /\ [][C13_PredicateThrowsStep]_vars

\* pred() has failed in the evaluation that follows a wake-up by timeout.
C13_Witness ==
    \E t \in Waiters :
        /\ pc[t] = "done"
        /\ ret[t] = "pred_throw"
        /\ woke[t] # "none"
        /\ holder = {t}

\* A thread that is not inside a wait can take its notify_one and notify_all
\* steps, whatever the state of the mutex and of the other threads.
C14_NotifyEnabled ==
    \A n \in Threads :
        pc[n] = "idle" => (ENABLED notify_one(n) /\ ENABLED notify_all(n))

\* A notify step is the whole call: it leaves the mutex with its owner, the
\* caller where it was, and no exception as the outcome of any call.
C14_NotifyStep ==
    \A n \in Threads :
        (notify_one(n) \/ notify_all(n))
            => /\ holder' = holder
               /\ pc'[n] = "idle"
               /\ ret' = ret

\* C14: notify_one and notify_all never block and never fail: they can be
\* called and they complete in every reachable state, whoever owns the mutex
\* (the notifier, a waiter, a third thread, nobody) and whether or not other
\* threads are entering or leaving a wait, and they do not acquire the mutex.
C14_NotifyNeverBlocks == []C14_NotifyEnabled /\ [][C14_NotifyStep]_vars

\* A thread has been woken by a notification while another thread, inside a
\* wait and about to block, owns the mutex, and a third thread is free to
\* notify.
C14_Witness ==
    \E n \in Threads, a \in Waiters, b \in Waiters :
        /\ pc[n] = "idle"
        /\ n \notin holder
        /\ holder = {a}
        /\ pc[a] = "enter"
        /\ pc[b] = "woken"
        /\ woke[b] = "notify"

\* C16: in every predicate wait, timed or not, each evaluation of pred(), the
\* one at the entry, the one after every wake-up and the final one after a
\* timeout, is made in a state where the calling thread owns the mutex (and is
\* not blocked).
C16_PredEvaluatedUnderLock ==
    \A t \in Waiters :
        (ENABLED EvalPred(t) \/ ENABLED ReturnPred(t) \/ ENABLED PredicateThrows(t))
            => /\ holder = {t}
               /\ t \notin waiters
               /\ op[t] \in {"wait_pred", "timed_wait_pred"}

\* A timed predicate wait has timed out, its thread has locked the mutex and
\* is about to evaluate the predicate for the last time.
C16_Witness ==
    \E t \in Waiters :
        /\ ENABLED ReturnPred(t)
        /\ woke[t] = "timeout"
        /\ holder = {t}

C17_DeadlineStep ==
    \A t \in Waiters :
        /\ \A r \in TimePoints :
              wait_for_pred(t, r) => (entry'[t] = now /\ deadline'[t] = now + r)
        /\ (pc[t] # "idle" /\ pc'[t] # "idle")
              => (deadline'[t] = deadline[t] /\ entry'[t] = entry[t])
        /\ (op[t] \in TimedOps /\ pc[t] # "blocked" /\ pc'[t] = "blocked")
              => now < deadline[t]

\* A thread of a timed wait that is blocked at or after its deadline has its
\* wake-up by timeout enabled.
C17_TimeoutDue ==
    \A t \in Waiters :
        (pc[t] = "blocked" /\ op[t] \in TimedOps /\ deadline[t] <= now)
            => ENABLED DeadlineExpires(t)

C18_BoundedWaitStep ==
    \A t \in Waiters :
        (op[t] = "timed_wait" /\ pc[t] = "enter" /\ pc'[t] # "enter")
            => IF deadline[t] <= now
               THEN /\ pc'[t] = "done"
                    /\ ret'[t] = "false"
                    /\ woke'[t] = "none"
                    /\ holder = {t}
                    /\ holder' = {t}
                    /\ waiters' = waiters
                    /\ t \notin waiters'
               ELSE \/ pc'[t] = "blocked" /\ t \in waiters' /\ holder' = {}
                    \/ pc'[t] = "done" /\ ret'[t] = "throw"

\* What timed_wait(lock, timeout) has returned: false if it did not block or
\* was woken by the timeout, the deadline reached in both cases, and true if
\* it was woken by a notification or spuriously.
C18_BoundedWaitResult ==
    \A t \in Waiters :
        (pc[t] = "done" /\ op[t] = "timed_wait" /\ ret[t] # "throw")
            => /\ ret[t] = IF woke[t] \in {"notify", "spurious"} THEN "true" ELSE "false"
               /\ ret[t] = "false" => deadline[t] <= now

C19_NotifyStep == \E n \in Threads : notify_one(n) \/ notify_all(n)

\* A thread stops being blocked only woken, and woken by a notification in a
\* notify step, spuriously, or by the timeout of a timed wait whose deadline
\* is reached; a thread blocked in a wait without timeout stays blocked in
\* every step that is neither a notify step nor its spurious wake-up.
C19_UnblockStep ==
    \A t \in Waiters :
        /\ (pc[t] = "blocked" /\ pc'[t] # "blocked")
              => /\ pc'[t] = "woken"
                 /\ t \in waiters
                 /\ t \notin waiters'
                 /\ CASE woke'[t] = "notify" -> C19_NotifyStep
                      [] woke'[t] = "spurious" -> SpuriousWakeup(t)
                      [] woke'[t] = "timeout" ->
                            /\ op[t] \in TimedOps
                            /\ deadline[t] <= now
                            /\ DeadlineExpires(t)
                      [] OTHER -> FALSE
        /\ (/\ pc[t] = "blocked"
            /\ op[t] \notin TimedOps
            /\ ~C19_NotifyStep
            /\ ~SpuriousWakeup(t))
              => (pc'[t] = "blocked" /\ t \in waiters')

\* C19: a blocked thread leaves the blocked state only through a notify_one
\* or notify_all that selects it, a spurious wake-up or, in a timed wait, the
\* expiry of its deadline; no other operation unblocks it, and a wait without
\* timeout that is neither notified nor woken spuriously stays blocked.
C19_OnlyWakeupsUnblock == [][C19_UnblockStep]_vars

\* A thread is still blocked in a wait without timeout after the mutex has
\* been locked and unlocked, the predicate made true and the clock run out.
C19_Witness ==
    \E t \in Waiters :
        /\ pc[t] = "blocked"
        /\ op[t] = "wait"
        /\ pred
        /\ holder = {}
        /\ now = ClockEnd

\* The blocked threads are the threads at the blocking point of a wait: each
\* of them is inside a wait call and does not own the mutex, and a thread
\* that has been woken, by a notification, spuriously or by its timeout, or
\* whose call has returned or failed, is not among them.
C20_QueueConsistent ==
    \A t \in Threads :
        /\ t \in waiters <=> pc[t] = "blocked"
        /\ t \in waiters => (t \in Waiters /\ InCall(t) /\ t \notin holder)
        /\ pc[t] \in {"woken", "final", "done", "idle"} => t \notin waiters

\* A notify_one made while a thread is blocked wakes a thread that is blocked.
C20_NotifyOneStep ==
    \A n \in Threads :
        (notify_one(n) /\ \E u \in Threads : pc[u] = "blocked")
            => \E w \in Threads :
                  /\ pc[w] = "blocked"
                  /\ pc'[w] = "woken"
                  /\ woke'[w] = "notify"

\* C20: in every reachable state the blocked threads of the object are
\* threads inside a wait call that do not own the mutex; a thread that leaves
\* its wait by timeout, spurious wake-up or failure is off the object before
\* it returns, so a later notify_one is never used up by a thread that waits
\* no more while another thread is still blocked.
C20_WaitQueueConsistent == []C20_QueueConsistent /\ [][C20_NotifyOneStep]_vars

\* A thread woken by its timeout is off the object, and has not returned yet,
\* while another thread is blocked on it.
C20_Witness ==
    \E t \in Waiters, u \in Waiters :
        /\ pc[t] = "woken"
        /\ woke[t] = "timeout"
        /\ t \notin waiters
        /\ pc[u] = "blocked"
        /\ u \in waiters

----------------------------------------------------------------------------
(* Properties of the notification scenario (LiveSpec).                     *)

\* The predicate has just been made true by the notifying thread, which still
\* owns the mutex and has not notified yet.
PredicateJustMadeTrue ==
    /\ pred
    /\ holder = {Signaller}
    /\ step = 1

Returned(t) == pc[t] = "done" /\ ret[t] = "void" /\ pred

\* C2: a thread blocked in wait(lock, pred) when the predicate is made true
\* and notify_all is called under the mutex eventually finds the predicate
\* true and returns, however many threads are blocked.
C2_NotifyAllReturnsAll ==
    \A t \in Waiters :
        (PredicateJustMadeTrue /\ plan[1] = "all" /\ pc[t] = "blocked")
            ~> Returned(t)

\* notify_all has just woken every one of the threads, all of them blocked.
C2_Witness ==
    /\ plan = <<"all">>
    /\ step = 2
    /\ \A t \in Waiters : pc[t] = "woken" /\ woke[t] = "notify"

\* C3 as stated: after the predicate is made true and notify_one is called
\* once under the mutex, every thread that was blocked eventually returns.
C3_NotifyOneReturnsAll ==
    \A t \in Waiters :
        (PredicateJustMadeTrue /\ plan = <<"one">> /\ pc[t] = "blocked")
            ~> Returned(t)

\* C3, amended: the thread notify_one wakes eventually finds the predicate
\* true and returns, and so does the blocked thread when it is the only one.
C3_NotifyOneReturnsOne ==
    \A t \in Waiters :
        /\ (pred /\ pc[t] = "woken" /\ woke[t] = "notify") ~> Returned(t)
        /\ (PredicateJustMadeTrue /\ plan[1] = "one" /\ waiters = {t}) ~> Returned(t)

\* notify_one, called once, has woken one thread and another is still blocked.
C3_Witness ==
    /\ plan = <<"one">>
    /\ step = 2
    /\ \E t \in Waiters, u \in Waiters :
          /\ pc[t] = "woken"
          /\ woke[t] = "notify"
          /\ pc[u] = "blocked"

OnlyNotifyOne == \A i \in 1..Len(plan) : plan[i] = "one"

\* A notify_one call of the scenario takes one thread, no more, out of the
\* blocked threads.
C9_EachCallWakesOne ==
    (DriverNotify /\ plan[step] = "one")
        => /\ Cardinality(waiters \ waiters') <= 1
           /\ waiters # {} => Cardinality(waiters \ waiters') = 1

\* C9: with K threads blocked, the predicate made true and K notify_one calls
\* issued one after the other under the mutex, every one of the K threads
\* eventually returns; and each call takes one thread, no more, out of the
\* blocked threads.
C9_KNotifyOneReturnAll ==
    /\ \A t \in Waiters :
          (/\ PredicateJustMadeTrue
           /\ OnlyNotifyOne
           /\ Len(plan) >= Cardinality(waiters)
           /\ pc[t] = "blocked")
              ~> Returned(t)
    /\ [][C9_EachCallWakesOne]_vars

\* All NWaiters threads were blocked and NWaiters notify_one calls have woken
\* them, one each.
C9_Witness ==
    /\ Len(plan) = NWaiters
    /\ OnlyNotifyOne
    /\ step = NWaiters + 1
    /\ \A t \in Waiters : pc[t] = "woken" /\ woke[t] = "notify"

\* The order of a woken thread's steps in wait(lock, pred): it is woken, then
\* locks the mutex, which somebody has released, then evaluates the predicate
\* with the mutex owned, then returns if the predicate is true.
C15_OrderStep ==
    \A t \in Waiters :
        /\ (pc[t] = "blocked" /\ pc'[t] # "blocked")
              => (pc'[t] = "woken" /\ holder' = holder)
        /\ (pc[t] = "woken" /\ pc'[t] # "woken")
              => (pc'[t] = "check" /\ holder = {} /\ holder' = {t})
        /\ (pc[t] = "check" /\ pc'[t] # "check")
              => /\ holder = {t}
                 /\ holder' = {t}
                 /\ IF pred
                    THEN pc'[t] = "done" /\ ret'[t] = "void"
                    ELSE pc'[t] = "enter"

\* A thread that is evaluating the predicate or has returned owns the mutex:
\* the notifying thread does not.
C15_NotWhileHeld ==
    \A t \in Waiters :
        pc[t] \in {"check", "done"} => (holder = {t} /\ Signaller \notin holder)

\* C15: with thread A blocked in wait(lock, pred) on a false predicate, and
\* thread B acquiring the mutex, making the predicate true, calling
\* notify_one and releasing the mutex, A is woken, then locks the mutex, then
\* evaluates the predicate as true, then returns; it neither evaluates the
\* predicate nor returns while B owns the mutex; and it does return.
C15_ProducerConsumer ==
    /\ []C15_NotWhileHeld
    /\ [][C15_OrderStep]_vars
    /\ \A t \in Waiters :
          (PredicateJustMadeTrue /\ plan = <<"one">> /\ waiters = {t})
              ~> (Returned(t) /\ holder = {t})

\* The thread notify_one has woken has locked the mutex, released by the
\* notifying thread, and is about to evaluate the predicate, which is true.
C15_Witness ==
    /\ plan = <<"one">>
    /\ step = 2
    /\ pred
    /\ \E t \in Waiters :
          /\ pc[t] = "check"
          /\ op[t] = "wait_pred"
          /\ holder = {t}
          /\ waiters = {}

----------------------------------------------------------------------------
TypeOK ==
    /\ holder \subseteq Threads
    /\ Cardinality(holder) <= 1
    /\ pred \in BOOLEAN
    /\ waiters \subseteq Waiters
    /\ pc \in [Threads -> {"idle", "check", "enter", "blocked", "woken", "final", "done"}]
    /\ op \in [Threads -> {"none", "wait", "wait_pred", "timed_wait", "timed_wait_pred"}]
    /\ deadline \in [Threads -> TimePoints]
    /\ entry \in [Threads -> 0..ClockEnd]
    /\ ret \in [Threads -> {"none", "void", "true", "false", "throw", "pred_throw"}]
    /\ woke \in [Threads -> {"none", "notify", "spurious", "timeout"}]
    /\ now \in 0..ClockEnd

====
